---- MODULE Spec2Model ----
(***************************************************************************)
(* Model of Generator.generate (lib/builder/generator.js): the static-site *)
(* generation run of nuxt.  One run is modelled: the orchestrator's awaits *)
(* (ready, build, remove, copy, promisifyRoute), the route merge           *)
(* (decorateWithPayloads), the batch loop with its concurrently running    *)
(* per-route async callbacks, the un-awaited .nojekyll write and the error *)
(* report.                                                                 *)
(*                                                                         *)
(* JavaScript values are modelled by tags:                                 *)
(*   payloads      "undefined" | "null" | "0" | "false" | "obj"            *)
(*   thrown values "Error" (an object with a stack) | "nullish"            *)
(*   in-band errors "plain" (serialisable) | "circular" (JSON.stringify    *)
(*                 throws on it)                                           *)
(* A route path is the sequence of its segments after the leading slash:   *)
(* "/" is <<"">>, "/about" is <<"about">>, "/about/" is <<"about", "">>.   *)
(***************************************************************************)
EXTENDS Integers, Sequences, FiniteSets, TLC

VARIABLES
    pc,             \* position of generate(): the await it is suspended at
    mode,           \* this.options.router.mode
    minifyOn,       \* this.options.generate.minify is truthy
    interval,       \* this.options.generate.interval
    batchSize,      \* the splice width (500 in the code), scaled down
    flat,           \* flatRoutes(this.options.router.routes)
    generateRoutes, \* let generateRoutes
    workList,       \* decorateWithPayloads(routes) as computed (history)
    routes,         \* let routes, what the loop has not spliced off yet
    batch,          \* the slice handed to the current Promise.all
    member,         \* per route: the state of its async callback
    errors,         \* let errors
    files,          \* the files under distPath: set of [path, data]
    dirs,           \* the directories under distPath
    removeCalled,   \* remove(distPath) has been called (history)
    attempts,       \* per route: number of renderRoute calls (history)
    batches,        \* number of Promise.all batches issued (history)
    nojekyll,       \* the un-awaited writeFile(nojekyllPath, '')
    report,         \* the lines console.error printed as the error report
    result,         \* what generate() resolved with
    rejectedWith,   \* what generate() rejected with
    fault,          \* the awaited call of lines 32-55 that failed (history)
    elapsed,        \* ms since the callbacks of the batch were started, as
                    \* far as a timer of the batch is still to fire
    otherErrors     \* let errors of another, concurrent generate() call

vars == <<pc, mode, minifyOn, interval, batchSize, flat, generateRoutes,
          workList, routes, batch, member, errors, files, dirs, removeCalled,
          attempts, batches, nojekyll, report, result, rejectedWith, fault,
          elapsed, otherErrors>>

-----------------------------------------------------------------------------
(* Bounds *)

\* largest splice width tried (the code's 500, scaled down)
MaxBatchSize == 2
\* longest flatRoutes() result tried by the merge specification
MaxStatic == 2
\* longest resolved generate.routes tried by the merge specification
MaxDynamic == 2

\* records the other, concurrent call of generate() pushes at most
MaxOtherRecords == 1

-----------------------------------------------------------------------------
(* Values *)

Root == <<"">>
About == <<"about">>
X == <<"x">>

\* the route paths of the model
Paths == {Root, About, X}

PayloadValues == {"undefined", "null", "0", "false", "obj"}

\* an element of generate.routes: a string, or an object {route, payload}
DynamicItems ==
    [isString : {TRUE}, route : Paths, payload : {"undefined"}]
      \cup [isString : {FALSE}, route : Paths, payload : PayloadValues]

ThrownValues == {"Error", "nullish"}
InBandErrors == {"plain", "circular"}

\* resolve(this.options.rootDir, this.options.generate.dir)
distPath == <<"dist">>

Min(a, b) == IF a <= b THEN a ELSE b

\* all sequences over S of length at most n
SeqsUpTo(S, n) == UNION {[1..k -> S] : k \in 0..n}

IsInjective(s) == \A i, j \in 1..Len(s) : s[i] = s[j] => i = j

-----------------------------------------------------------------------------
(* decorateWithPayloads, lines 63-82 *)

\* position of the key in routeMap, 0 when it is not an own property
KeyIndex(routeMap, key) ==
    IF \E i \in 1..Len(routeMap) : routeMap[i].route = key
    THEN CHOOSE i \in 1..Len(routeMap) : routeMap[i].route = key
    ELSE 0

\* a bug to compare with: assigning an existing key moves it to the end
SetKeyMovesToEnd(routeMap, key, entry) ==
    Append(SelectSeq(routeMap, LAMBDA e : e.route # key), entry)

\* routeMap[key] = entry on a plain object whose keys are path strings: an
\* existing key keeps its place in the property order, a new key comes last
SetKey(routeMap, key, entry) ==
    IF KeyIndex(routeMap, key) = 0
    THEN Append(routeMap, entry)
    ELSE [routeMap EXCEPT ![KeyIndex(routeMap, key)] = entry]

\* v || null
OrNull(v) == IF v \in {"undefined", "null", "0", "false"} THEN "null" ELSE v

\* _.isString(route) ? route : route.route
ItemPath(item) == item.route

\* route.payload: undefined on a string
ItemPayload(item) == IF item.isString THEN "undefined" ELSE item.payload

RECURSIVE FillKnown(_, _)
\* routes.forEach(route => routeMap[route] = {route, payload: null})
FillKnown(routeMap, rs) ==
    IF rs = <<>> THEN routeMap
    ELSE FillKnown(SetKey(routeMap, Head(rs),
                          [route |-> Head(rs), payload |-> "null"]),
                   Tail(rs))

RECURSIVE FillGiven(_, _)
\* generateRoutes.forEach(route => routeMap[path] = {route: path, payload})
FillGiven(routeMap, items) ==
    IF items = <<>> THEN routeMap
    ELSE FillGiven(SetKey(routeMap, ItemPath(Head(items)),
                          [route |-> ItemPath(Head(items)),
                           payload |-> OrNull(ItemPayload(Head(items)))]),
                   Tail(items))

\* _.values(routeMap) after both passes
decorateWithPayloads(rs, items) == FillGiven(FillKnown(<<>>, rs), items)

-----------------------------------------------------------------------------
(* Output paths, lines 111-115 *)

\* path.join's normalisation of the segments: empty segments disappear
Normalize(segs) == SelectSeq(segs, LAMBDA s : s # "")

\* join(route, sep, 'index.html')
RouteFile(route) == Normalize(route \o <<"">> \o <<"index.html">>)

\* a bug to compare with: the segments are concatenated, not normalised
OutFileNotNormalized(route) == distPath \o route \o <<"", "index.html">>

\* join(distPath, path)
OutFile(route) == Normalize(distPath \o RouteFile(route))

\* dirname(path)
dirname(path) == SubSeq(path, 1, Len(path) - 1)

\* the directories mkdirp(dir) makes sure exist
Ancestors(dir) == {SubSeq(dir, 1, k) : k \in 1..Len(dir)}

\* resolve(distPath, '.nojekyll')
nojekyllPath == distPath \o <<".nojekyll">>

\* writeFile(path, data): the file at path is replaced
WriteTo(fs, path, data) ==
    {f \in fs : f.path # path} \cup {[path |-> path, data |-> data]}

Exists(fs, path) == \E f \in fs : f.path = path

-----------------------------------------------------------------------------
(* The error report, lines 127-137 *)

\* error.stack of an unhandled record throws a TypeError when the thrown
\* value is null or undefined; JSON.stringify of a handled record's error
\* throws a TypeError on a circular structure
LineThrows(e) ==
    IF e.type = "unhandled" THEN e.error = "nullish" ELSE e.error = "circular"

\* errors.map(...) throws when one of its lines does
ReportThrows(errs) == \E i \in 1..Len(errs) : LineThrows(errs[i])

\* the report lines when none throws: the route and the rendering of the error
ReportLines(errs) ==
    [i \in 1..Len(errs) |->
        [route |-> errs[i].route,
         text |-> IF errs[i].type = "unhandled" THEN "stack" ELSE "json"]]

-----------------------------------------------------------------------------
(* Inputs of a run *)

\* the flatRoutes() results tried by a run
RunFlat == {<<>>, <<Root>>, <<Root, About>>}

\* the values generate.routes resolves to in a run
RunGiven ==
    { <<>>,
      <<[isString |-> TRUE, route |-> X, payload |-> "undefined"]>>,
      <<[isString |-> FALSE, route |-> About, payload |-> "obj"]>> }

\* the values of isUrl(this.options.build.publicPath) tried by a run: the
\* default publicPath '/_nuxt/' is no URL
RunPublicPathIsUrl == {FALSE}

\* what the output directory holds before the run
StaleFiles == {[path |-> distPath \o <<"old.html">>,
                data |-> [kind |-> "stale", route |-> <<>>]]}

staticAsset == [path |-> distPath \o <<"favicon.ico">>,
                data |-> [kind |-> "static", route |-> <<>>]]

\* join(distPath, isUrl(publicPath) ? '' : publicPath), line 29
distNuxtPath(publicPathIsUrl) ==
    Normalize(distPath \o (IF publicPathIsUrl THEN <<"">> ELSE <<"_nuxt">>))

builtAsset(publicPathIsUrl) ==
    [path |-> distNuxtPath(publicPathIsUrl) \o <<"app.js">>,
     data |-> [kind |-> "built", route |-> <<>>]]

idle == [pc |-> "idle", idx |-> 0, html |-> "undefined",
         res |-> "none", min |-> "none"]

\* lines 20-29: the state in which generate() awaits this.nuxt.ready()
Init ==
    /\ pc = "ready"
    /\ mode \in {"history", "hash"}
    /\ minifyOn \in BOOLEAN
    /\ interval \in {0, 1}
    /\ batchSize \in 1..MaxBatchSize
    /\ flat = <<>>
    /\ generateRoutes = <<>>
    /\ workList = <<>>
    /\ routes = <<>>
    /\ batch = <<>>
    /\ member = [r \in Paths |-> idle]
    /\ errors = <<>>
    /\ files = StaleFiles
    /\ dirs = {distPath}
    /\ removeCalled = FALSE
    /\ attempts = [r \in Paths |-> 0]
    /\ batches = 0
    /\ nojekyll = "none"
    /\ report = <<>>
    /\ result = <<>>
    /\ rejectedWith = "none"
    /\ fault = "none"
    /\ elapsed = 0
    /\ otherErrors = <<>>

\* a rejected await of generate(): the error propagates to the caller
Reject(e) ==
    /\ pc' = "rejected"
    /\ rejectedWith' = e

\* line 32 settles; lines 35-40 run up to the next await
Ready ==
    /\ pc = "ready"
    /\ \/ /\ \E build \in BOOLEAN :           \* this.builder && doBuild
               IF build
               THEN pc' = "build" /\ UNCHANGED removeCalled
               ELSE pc' = "remove" /\ removeCalled' = TRUE
          /\ UNCHANGED <<rejectedWith, fault>>
       \/ Reject("readyErr") /\ fault' = "readyErr" /\ UNCHANGED removeCalled
    /\ UNCHANGED <<mode, minifyOn, interval, batchSize, flat, generateRoutes,
                   workList, routes, batch, member, errors, files, dirs,
                   attempts, batches, nojekyll, report, result>>
    /\ UNCHANGED <<elapsed, otherErrors>>

\* line 36 settles; line 40 calls remove(distPath)
Build ==
    /\ pc = "build"
    /\ \/ pc' = "remove" /\ removeCalled' = TRUE /\ UNCHANGED <<rejectedWith, fault>>
       \/ Reject("buildErr") /\ fault' = "buildErr" /\ UNCHANGED removeCalled
    /\ UNCHANGED <<mode, minifyOn, interval, batchSize, flat, generateRoutes,
                   workList, routes, batch, member, errors, files, dirs,
                   attempts, batches, nojekyll, report, result>>
    /\ UNCHANGED <<elapsed, otherErrors>>

\* line 40 settles; lines 45-48 call the first copy
Remove ==
    /\ pc = "remove"
    /\ \/ /\ files' = {} /\ dirs' = {}
          /\ \E exists \in BOOLEAN :          \* fs.existsSync(srcStaticPath)
               pc' = IF exists THEN "copyStatic" ELSE "copyBuilt"
          /\ UNCHANGED <<rejectedWith, fault>>
       \/ /\ Reject("removeErr") /\ fault' = "removeErr"
          /\ files' \in SUBSET files
          /\ UNCHANGED dirs
    /\ UNCHANGED <<mode, minifyOn, interval, batchSize, flat, generateRoutes,
                   workList, routes, batch, member, errors, removeCalled,
                   attempts, batches, nojekyll, report, result>>
    /\ UNCHANGED <<elapsed, otherErrors>>

\* line 46 settles; line 48 calls the second copy
CopyStatic ==
    /\ pc = "copyStatic"
    /\ \/ /\ files' = files \cup {staticAsset}
          /\ dirs' = dirs \cup {distPath}
          /\ pc' = "copyBuilt"
          /\ UNCHANGED <<rejectedWith, fault>>
       \/ Reject("copyErr") /\ fault' = "copyErr" /\ UNCHANGED <<files, dirs>>
    /\ UNCHANGED <<mode, minifyOn, interval, batchSize, flat, generateRoutes,
                   workList, routes, batch, member, errors, removeCalled,
                   attempts, batches, nojekyll, report, result>>
    /\ UNCHANGED <<elapsed, otherErrors>>

\* a bug to compare with: generate.routes is resolved in every mode
ResolvesRoutesAlways(m) == TRUE

\* line 52: this.options.router.mode !== 'hash'
ResolvesRoutes(m) == m # "hash"

\* line 48 settles; lines 52-55 call promisifyRoute unless the mode is hash
CopyBuilt ==
    /\ pc = "copyBuilt"
    /\ \/ /\ \E url \in RunPublicPathIsUrl :  \* isUrl(build.publicPath)
               /\ files' = files \cup {builtAsset(url)}
               /\ dirs' = dirs \cup Ancestors(distNuxtPath(url))
          /\ pc' = IF ResolvesRoutes(mode) THEN "resolve" ELSE "compute"
          /\ UNCHANGED <<rejectedWith, fault>>
       \/ Reject("copyErr") /\ fault' = "copyErr" /\ UNCHANGED <<files, dirs>>
    /\ UNCHANGED <<mode, minifyOn, interval, batchSize, flat, generateRoutes,
                   workList, routes, batch, member, errors, removeCalled,
                   attempts, batches, nojekyll, report, result>>
    /\ UNCHANGED <<elapsed, otherErrors>>

\* a bug to compare with: the catch block logs and does not rethrow
RoutesCatchSwallows(e) == "none"

\* lines 56-60: what the catch block throws for the rejection e
RoutesCatch(e) == e

\* line 55 settles with one of the values in given, or rejects
Resolve(given) ==
    /\ pc = "resolve"
    /\ \/ /\ generateRoutes' \in given
          /\ pc' = "compute"
          /\ UNCHANGED <<rejectedWith, fault>>
       \/ /\ IF RoutesCatch("routesErr") = "none"
             THEN pc' = "compute" /\ UNCHANGED rejectedWith
             ELSE Reject(RoutesCatch("routesErr"))
          /\ fault' = "routesErr"
          /\ UNCHANGED generateRoutes
    /\ UNCHANGED <<mode, minifyOn, interval, batchSize, flat, workList,
                   routes, batch, member, errors, files, dirs, removeCalled,
                   attempts, batches, nojekyll, report, result>>
    /\ UNCHANGED <<elapsed, otherErrors>>

\* line 85: flatRoutes() is not called in hash mode
CallsFlatRoutes(m) == m # "hash"

\* line 85: (mode === 'hash') ? ['/'] : flatRoutes(this.options.router.routes)
StaticRoutes(m, flattened) == IF CallsFlatRoutes(m) THEN flattened ELSE <<Root>>

\* lines 85-86, with flatRoutes() returning one of the lists in known
Compute(known) ==
    /\ pc = "compute"
    /\ IF CallsFlatRoutes(mode) THEN flat' \in known ELSE flat' = <<>>
    /\ workList' = decorateWithPayloads(StaticRoutes(mode, flat'), generateRoutes)
    /\ routes' = workList'
    /\ pc' = "loop"
    /\ UNCHANGED <<mode, minifyOn, interval, batchSize, generateRoutes, batch,
                   member, errors, files, dirs, removeCalled, attempts,
                   batches, nojekyll, report, result, rejectedWith, fault>>
    /\ UNCHANGED <<elapsed, otherErrors>>

-----------------------------------------------------------------------------
(* The batch loop, lines 88-118 *)

\* a bug to compare with: the splice drops one route more than it returns
SpliceRestSkipsOne(rs, k) == SubSeq(rs, k + 2, Len(rs))

\* a bug to compare with: the splice returns one route more than asked for
SpliceTakenOneMore(rs, k) == SubSeq(rs, 1, Min(k + 1, Len(rs)))

\* routes.splice(0, k): what it returns
SpliceTaken(rs, k) == SubSeq(rs, 1, Min(k, Len(rs)))

\* routes.splice(0, k): what it leaves in routes
SpliceRest(rs, k) == SubSeq(rs, Min(k, Len(rs)) + 1, Len(rs))

\* position of route r in the sequence of routes rs, 0 when absent
IndexIn(rs, r) ==
    IF \E i \in 1..Len(rs) : rs[i].route = r
    THEN CHOOSE i \in 1..Len(rs) : rs[i].route = r
    ELSE 0

InBatch(r) == IndexIn(batch, r) # 0

\* lines 88-91: the loop test holds, the slice is mapped to its callbacks,
\* each runs to its await of waitFor(n++ * interval)
StartBatch ==
    /\ pc = "loop"
    /\ routes # <<>>
    /\ batch' = SpliceTaken(routes, batchSize)
    /\ routes' = SpliceRest(routes, batchSize)
    /\ member' = [r \in Paths |->
                    IF IndexIn(batch', r) # 0
                    THEN [idle EXCEPT !.pc = "wait",
                                      !.idx = IndexIn(batch', r) - 1]
                    ELSE member[r]]
    /\ batches' = batches + 1
    /\ pc' = "batch"
    /\ UNCHANGED <<mode, minifyOn, interval, batchSize, flat, generateRoutes,
                   workList, errors, files, dirs, removeCalled, attempts,
                   nojekyll, report, result, rejectedWith, fault>>
    /\ elapsed' = 0
    /\ UNCHANGED otherErrors

\* a bug to compare with: n is not incremented, every callback waits 0 ms
DelayWithoutIncrement(n, iv) == 0 * iv

\* line 91: n++ * this.options.generate.interval, for the value n had
Delay(n, iv) == n * iv

\* waitFor(ms): the promise resolves once ms milliseconds have passed
TimerFired(ms) == elapsed >= ms

\* a millisecond passes while a timer of the batch is still to fire
Tick ==
    /\ \E r \in Paths :
         member[r].pc = "wait" /\ ~TimerFired(Delay(member[r].idx, interval))
    /\ elapsed' = elapsed + 1
    /\ UNCHANGED <<pc, mode, minifyOn, interval, batchSize, flat,
                   generateRoutes, workList, routes, batch, member, errors,
                   files, dirs, removeCalled, attempts, batches, nojekyll,
                   report, result, rejectedWith, fault, otherErrors>>

\* line 91 settles: the timer of n * interval ms fires (timers of growing
\* delay fire in that order); line 94 calls renderRoute
WaitElapses(r) ==
    /\ member[r].pc = "wait"
    /\ TimerFired(Delay(member[r].idx, interval))
    /\ \A q \in Paths :
         member[q].pc = "wait" =>
           Delay(member[q].idx, interval) >= Delay(member[r].idx, interval)
    /\ member' = [member EXCEPT ![r].pc = "render"]
    /\ attempts' = [attempts EXCEPT ![r] = @ + 1]
    /\ UNCHANGED <<pc, mode, minifyOn, interval, batchSize, flat,
                   generateRoutes, workList, routes, batch, errors, files,
                   dirs, removeCalled, batches, nojekyll, report, result,
                   rejectedWith, fault>>
    /\ UNCHANGED <<elapsed, otherErrors>>

\* what renderRoute settles with: a rejection, or a result with res.error
RenderOutcomes ==
    [kind : {"throw"}, value : ThrownValues]
      \cup [kind : {"ok"}, value : {"none"} \cup InBandErrors]

\* a bug to compare with: the catch block of the render records and goes on
AfterRenderCatchGoesOn == "continue"

\* line 101: return errors.push(...)
AfterRenderCatch == "stop"

\* a bug to compare with: an in-band error ends the processing of the route
AfterInBandErrorStops == "stop"

\* lines 96-98: the record is pushed and the callback goes on
AfterInBandError == "continue"

\* lines 106-109: the record is pushed, nothing is returned or thrown
AfterMinifyCatch == "continue"

\* the message of a value the renderer threw or returned: not built by
\* generate(), nothing of the route is interpolated into it here
NoMessage == [routes |-> {}, markup |-> {}]

\* line 107: the template string of the wrapping Error; ${html} is its only
\* interpolation, the route is not part of the text
MinifyMessage(route, html) == [routes |-> {}, markup |-> {html}]

\* a bug to compare with: the rejection of mkdirp or writeFile is caught in
\* the callback and does not reach Promise.all
MemberRejectionCaught == UNCHANGED <<pc, rejectedWith>>

\* the callback of a rejected member rejects Promise.all, hence generate(),
\* unless generate() has left the await of this batch already
MemberRejects ==
    IF pc = "batch"
    THEN Reject("fsErr")
    ELSE UNCHANGED <<pc, rejectedWith>>

\* line 94 settles; lines 95-115 run up to the await of mkdirp
RenderSettles(r) ==
    /\ member[r].pc = "render"
    /\ \E out \in RenderOutcomes, mo \in {"ok", "throw"} :
         LET threw == out.kind = "throw"
             inband == out.kind = "ok" /\ out.value # "none"
             e1 == IF threw
                   THEN <<[type |-> "unhandled", route |-> r, error |-> out.value,
                           message |-> NoMessage]>>
                   ELSE IF inband
                   THEN <<[type |-> "handled", route |-> r, error |-> out.value,
                           message |-> NoMessage]>>
                   ELSE <<>>
             go1 == IF threw THEN AfterRenderCatch = "continue"
                    ELSE IF inband THEN AfterInBandError = "continue"
                    ELSE TRUE
             html1 == IF threw THEN "undefined" ELSE "raw"
             runsMin == go1 /\ minifyOn
             minThrows == runsMin /\ mo = "throw"
             e2 == IF minThrows
                   THEN <<[type |-> "unhandled", route |-> r, error |-> "minifyErr",
                           message |-> MinifyMessage(r, html1)]>>
                   ELSE <<>>
             html2 == IF runsMin /\ ~minThrows THEN "min" ELSE html1
             go2 == go1 /\ (~minThrows \/ AfterMinifyCatch = "continue")
         IN  /\ ~runsMin => mo = "ok"
             /\ errors' = errors \o e1 \o e2
             /\ member' = [member EXCEPT ![r] =
                   [pc |-> IF go2 THEN "mkdirp" ELSE "done",
                    idx |-> member[r].idx,
                    html |-> html2,
                    res |-> IF threw THEN "throw"
                            ELSE IF inband THEN "inband" ELSE "ok",
                    min |-> IF runsMin THEN mo ELSE "none"]]
    /\ UNCHANGED <<pc, mode, minifyOn, interval, batchSize, flat,
                   generateRoutes, workList, routes, batch, files, dirs,
                   removeCalled, attempts, batches, nojekyll, report, result,
                   rejectedWith, fault>>
    /\ UNCHANGED <<elapsed, otherErrors>>

\* line 115 settles; line 116 calls writeFile
MkdirpSettles(r) ==
    /\ member[r].pc = "mkdirp"
    /\ \/ /\ dirs' = dirs \cup Ancestors(dirname(OutFile(r)))
          /\ member' = [member EXCEPT ![r].pc = "write"]
          /\ UNCHANGED <<pc, rejectedWith>>
       \/ /\ member' = [member EXCEPT ![r].pc = "failed"]
          /\ MemberRejects
          /\ UNCHANGED dirs
    /\ UNCHANGED <<mode, minifyOn, interval, batchSize, flat, generateRoutes,
                   workList, routes, batch, errors, files, removeCalled,
                   attempts, batches, nojekyll, report, result, fault>>
    /\ UNCHANGED <<elapsed, otherErrors>>

\* line 116 settles; the callback returns
WriteSettles(r) ==
    /\ member[r].pc = "write"
    /\ \/ /\ files' = WriteTo(files, OutFile(r),
                              [kind |-> member[r].html, route |-> r])
          /\ member' = [member EXCEPT ![r].pc = "done"]
          /\ UNCHANGED <<pc, rejectedWith>>
       \/ /\ member' = [member EXCEPT ![r].pc = "failed"]
          /\ MemberRejects
          /\ UNCHANGED files
    /\ UNCHANGED <<mode, minifyOn, interval, batchSize, flat, generateRoutes,
                   workList, routes, batch, errors, dirs, removeCalled,
                   attempts, batches, nojekyll, report, result, fault>>
    /\ UNCHANGED <<elapsed, otherErrors>>

\* a bug to compare with: the await settles with the first callback that
\* returns (Promise.race)
FirstSettled == \E r \in Paths : InBatch(r) /\ member[r].pc = "done"

\* line 90: Promise.all resolves when every callback of the batch has returned
AllSettled == \A r \in Paths : InBatch(r) => member[r].pc = "done"

\* line 90 settles: every callback of the batch has returned
BatchSettles ==
    /\ pc = "batch"
    /\ AllSettled
    /\ pc' = "loop"
    /\ UNCHANGED <<mode, minifyOn, interval, batchSize, flat, generateRoutes,
                   workList, routes, batch, member, errors, files, dirs,
                   removeCalled, attempts, batches, nojekyll, report, result,
                   rejectedWith, fault>>
    /\ UNCHANGED <<elapsed, otherErrors>>

-----------------------------------------------------------------------------
(* Lines 120-139 *)

\* the loop test fails; writeFile(nojekyllPath, '') is called and not
\* awaited, the report is built and printed, generate() returns
Finish ==
    /\ pc = "loop"
    /\ routes = <<>>
    /\ nojekyll' = "pending"
    /\ IF ReportThrows(errors)
       THEN Reject("TypeError") /\ UNCHANGED <<report, result>>
       ELSE /\ pc' = "returned"
            /\ report' = ReportLines(errors)
            /\ result' = <<[errors |-> errors]>>
            /\ UNCHANGED rejectedWith
    /\ UNCHANGED <<mode, minifyOn, interval, batchSize, flat, generateRoutes,
                   workList, routes, batch, member, errors, files, dirs,
                   removeCalled, attempts, batches, fault>>
    /\ UNCHANGED <<elapsed, otherErrors>>

\* the write of line 123 settles, after generate() has settled
NojekyllSettles ==
    /\ nojekyll = "pending"
    /\ \/ /\ files' = WriteTo(files, nojekyllPath,
                              [kind |-> "empty", route |-> <<>>])
          /\ nojekyll' = "written"
       \/ /\ nojekyll' = "failed"
          /\ UNCHANGED files
    /\ UNCHANGED <<pc, mode, minifyOn, interval, batchSize, flat,
                   generateRoutes, workList, routes, batch, member, errors,
                   dirs, removeCalled, attempts, batches, report, result,
                   rejectedWith, fault>>
    /\ UNCHANGED <<elapsed, otherErrors>>

-----------------------------------------------------------------------------
(* Specifications *)

Next ==
    \/ Ready
    \/ Build
    \/ Remove
    \/ CopyStatic
    \/ CopyBuilt
    \/ Resolve(RunGiven)
    \/ Compute(RunFlat)
    \/ StartBatch
    \/ Tick
    \/ \E r \in Paths : WaitElapses(r)
    \/ \E r \in Paths : RenderSettles(r)
    \/ \E r \in Paths : MkdirpSettles(r)
    \/ \E r \in Paths : WriteSettles(r)
    \/ BatchSettles
    \/ Finish
    \/ NojekyllSettles

\* one run of generate()
Spec == Init /\ [][Next]_vars

\* the state in which lines 85-86 run, for every resolved generate.routes of
\* at most MaxDynamic items
InitMerge ==
    /\ pc = "compute"
    /\ mode = "history"
    /\ minifyOn = FALSE
    /\ interval = 0
    /\ batchSize = 1
    /\ flat = <<>>
    /\ generateRoutes \in SeqsUpTo(DynamicItems, MaxDynamic)
    /\ workList = <<>>
    /\ routes = <<>>
    /\ batch = <<>>
    /\ member = [r \in Paths |-> idle]
    /\ errors = <<>>
    /\ files = {builtAsset(FALSE)}
    /\ dirs = Ancestors(distNuxtPath(FALSE))
    /\ removeCalled = TRUE
    /\ attempts = [r \in Paths |-> 0]
    /\ batches = 0
    /\ nojekyll = "none"
    /\ report = <<>>
    /\ result = <<>>
    /\ rejectedWith = "none"
    /\ fault = "none"
    /\ elapsed = 0
    /\ otherErrors = <<>>

NextMerge == Compute(SeqsUpTo(Paths, MaxStatic))

\* decorateWithPayloads on every pair of inputs within the bounds
SpecMerge == InitMerge /\ [][NextMerge]_vars

\* a bug to compare with: errors is one list of the generator, which the
\* calls of generate() share
errorsShared(own, rec) == Append(own, rec)

\* line 22: let errors = [] binds a new list in every call of generate();
\* a record another call pushes does not reach the list of this call
errorsOfCall(own, rec) == own

\* another call of generate() on the same generator records a failure of one
\* of its routes (its lines 97 and 100), while this call is anywhere
OtherInvocationRecords ==
    /\ Len(otherErrors) < MaxOtherRecords
    /\ \E r \in Paths :
         LET rec == [type |-> "unhandled", route |-> r, error |-> "Error",
                     message |-> NoMessage]
         IN  /\ otherErrors' = Append(otherErrors, rec)
             /\ errors' = errorsOfCall(errors, rec)
    /\ UNCHANGED <<pc, mode, minifyOn, interval, batchSize, flat,
                   generateRoutes, workList, routes, batch, member, files,
                   dirs, removeCalled, attempts, batches, nojekyll, report,
                   result, rejectedWith, fault, elapsed>>

\* two concurrent calls; of the second one only its errors list is kept
InitTwo == Init /\ mode = "history" /\ minifyOn = FALSE

NextTwo == Next \/ OtherInvocationRecords

SpecTwo == InitTwo /\ [][NextTwo]_vars

\* every external call that is pending eventually settles: a step that can
\* be taken is eventually taken
SpecFair == Init /\ [][Next]_vars /\ WF_vars(Next)

-----------------------------------------------------------------------------
(* Properties *)

Ceil(n, k) == (n + k - 1) \div k

\* the routes of the work list, in order
WorkPaths == [i \in 1..Len(workList) |-> workList[i].route]

\* the work list has been computed
Computed == pc \notin {"ready", "build", "remove", "copyStatic", "copyBuilt",
                       "resolve", "compute"}
            /\ fault = "none"

\* the loop of lines 88-118 has ended: line 123 has run
LoopEnded == nojekyll # "none"

\* the number of records of the given type the errors list holds for route r
Records(r, type) ==
    Cardinality({i \in 1..Len(errors) :
                    errors[i].route = r /\ errors[i].type = type})

\* the file of route r is in the output tree, written by r's callback
Written(r) ==
    \E f \in files : f.path = OutFile(r) /\ f.data.route = r
                     /\ f.data.kind \in {"raw", "min"}

\* some file of the output tree was written by r's callback
WroteAny(r) == \E f \in files : f.data.route = r

\* C1: for every batch size k and every work list of n routes the loop
\* issues ceil(n/k) batches one after another and every route gets exactly
\* one renderRoute call, whatever the renders of the other routes do: at
\* every moment the batches issued are ceil(spliced/k), no route was rendered
\* twice, the routes of the earlier batches were all rendered once, the
\* routes still in the list not yet; when the loop has ended, ceil(n/k)
\* batches were issued and every route was rendered exactly once.
C1_BatchesAndAttempts ==
    Computed =>
      LET n == Len(workList)
          spliced == n - Len(routes)
      IN  /\ batches = Ceil(spliced, batchSize)
          /\ \A r \in Paths : attempts[r] <= 1
          /\ \A r \in Paths :
               attempts[r] = 1 => \E i \in 1..n : WorkPaths[i] = r
          /\ \A i \in 1..n :
               /\ i <= spliced - Len(batch) => attempts[WorkPaths[i]] = 1
               /\ i > spliced => attempts[WorkPaths[i]] = 0
          /\ LoopEnded =>
               /\ batches = Ceil(n, batchSize)
               /\ \A i \in 1..n : attempts[WorkPaths[i]] = 1

\* three routes in batches of two: two batches, the first with a render that
\* threw, and the loop has ended with every route rendered
C1_Witness ==
    /\ LoopEnded
    /\ Len(workList) = 3
    /\ batchSize = 2
    /\ batches = 2
    /\ member[Root].res = "throw"
    /\ \A i \in 1..3 : attempts[WorkPaths[i]] = 1

\* C2: a route whose render threw or rejected has exactly one record, of
\* type unhandled and holding the thrown value, its callback has returned
\* and has written no file; every route whose render succeeded and whose
\* callback has returned has its index.html, and when the loop has ended
\* that is every route whose render succeeded.
C2_RenderThrowIsolated ==
    /\ \A r \in Paths :
         member[r].res = "throw" =>
           /\ Records(r, "unhandled") = 1
           /\ Records(r, "handled") = 0
           /\ \E i \in 1..Len(errors) :
                errors[i].route = r /\ errors[i].error \in ThrownValues
           /\ member[r].pc = "done"
           /\ ~WroteAny(r)
    /\ \A q \in Paths :
         member[q].res \in {"ok", "inband"} /\ member[q].pc = "done"
           => Written(q)
    /\ LoopEnded =>
         \A q \in Paths : member[q].res \in {"ok", "inband"} => Written(q)

\* the render of /about threw, / of the same batch rendered and is written
C2_Witness ==
    /\ batchSize = 2
    /\ member[About].res = "throw"
    /\ member[Root].res = "ok"
    /\ InBatch(Root) /\ InBatch(About)
    /\ Written(Root)
    /\ ~WroteAny(About)
    /\ Records(About, "unhandled") = 1
    /\ pc = "returned"

\* C3: when minify throws for a route, the processing of the route stops:
\* neither mkdirp nor writeFile is called for it, no file is written for it
\* and it has exactly one record of type unhandled.
C3_MinifyThrowStops ==
    \A r \in Paths :
      member[r].min = "throw" =>
        /\ member[r].pc = "done"
        /\ ~WroteAny(r)
        /\ Records(r, "unhandled") = 1

\* C4: the errors list holds at most one record for each route.
C4_OneRecordPerRoute ==
    \A r \in Paths : Records(r, "handled") + Records(r, "unhandled") <= 1

\* C4 as it holds: a route has at most one handled and at most one unhandled
\* record; it has both exactly when its render returned an in-band error and
\* minify then threw; a route whose render threw has one record only, and a
\* route outside the work list has none.
C4_OneRecordPerStep ==
    \A r \in Paths :
      /\ Records(r, "handled") <= 1
      /\ Records(r, "unhandled") <= 1
      /\ Records(r, "handled") = (IF member[r].res = "inband" THEN 1 ELSE 0)
      /\ Records(r, "unhandled") =
           (IF member[r].res = "throw" \/ member[r].min = "throw" THEN 1 ELSE 0)
      /\ member[r].res = "throw" => member[r].min = "none"
      /\ (\A i \in 1..Len(workList) : WorkPaths[i] # r) =>
           Records(r, "handled") + Records(r, "unhandled") = 0

\* a route with an in-band error whose minification threw has two records,
\* and a route of the same run whose render threw has one
C4_Witness ==
    /\ member[Root].res = "inband" /\ member[Root].min = "throw"
    /\ Records(Root, "handled") = 1 /\ Records(Root, "unhandled") = 1
    /\ member[About].res = "throw"
    /\ Records(About, "unhandled") = 1

\* C5: a route whose render returned an in-band error has exactly one record
\* of type handled, its processing goes on to the write step, and when its
\* callback has returned the markup is in <outputRoot>/<route>/index.html.
C5_InBandErrorStillWritten ==
    \A r \in Paths :
      member[r].res = "inband" =>
        /\ Records(r, "handled") = 1
        /\ \E i \in 1..Len(errors) :
             /\ errors[i].route = r /\ errors[i].type = "handled"
             /\ errors[i].error \in InBandErrors
        /\ member[r].pc \in {"mkdirp", "write", "done", "failed"}
        /\ member[r].html \in {"raw", "min"}
        /\ member[r].pc = "done" =>
             /\ Written(r)
             /\ r = X => \E f \in files :
                           /\ f.path = <<"dist", "x", "index.html">>
                           /\ f.data = [kind |-> member[r].html, route |-> X]

\* /x rendered with an in-band error and dist/x/index.html holds its markup
C5_Witness ==
    /\ member[X].res = "inband"
    /\ member[X].pc = "done"
    /\ Records(X, "handled") = 1
    /\ \E f \in files : f.path = <<"dist", "x", "index.html">>
                        /\ f.data = [kind |-> "raw", route |-> X]

\* the paths of the resolved generate.routes, in order
GivenPaths == [i \in 1..Len(generateRoutes) |-> generateRoutes[i].route]

\* the index of the first occurrence of x in s
FirstIndex(s, x) ==
    CHOOSE i \in 1..Len(s) : s[i] = x /\ \A j \in 1..(i - 1) : s[j] # x

\* the index of the last occurrence of x in s
LastIndex(s, x) ==
    CHOOSE i \in 1..Len(s) : s[i] = x /\ \A j \in (i + 1)..Len(s) : s[j] # x

Range(s) == {s[i] : i \in 1..Len(s)}

\* C6: the merged work list holds each path of the static and the dynamic
\* input exactly once, the static paths first, in the order of their first
\* occurrence in the static list, then the paths only the dynamic items
\* bring, in the order of their first occurrence (a path already present
\* does not move).
C6_MergeOrder ==
    pc = "loop" /\ mode # "hash" =>
      LET all == flat \o GivenPaths
      IN  /\ IsInjective(WorkPaths)
          /\ Range(WorkPaths) = Range(all)
          /\ \A i, j \in 1..Len(WorkPaths) :
               i < j => FirstIndex(all, WorkPaths[i]) < FirstIndex(all, WorkPaths[j])
          /\ \A i \in 1..Len(WorkPaths) :
               WorkPaths[i] \in Range(flat) <=> i <= Cardinality(Range(flat))

\* static [/, /about] merged with [{route: '/', payload}, '/x']: the work
\* list is /, /about, /x with the payload on /
C6_Witness ==
    /\ pc = "loop"
    /\ flat = <<Root, About>>
    /\ generateRoutes =
         <<[isString |-> FALSE, route |-> Root, payload |-> "obj"],
           [isString |-> TRUE, route |-> X, payload |-> "undefined"]>>
    /\ workList = <<[route |-> Root, payload |-> "obj"],
                    [route |-> About, payload |-> "null"],
                    [route |-> X, payload |-> "null"]>>

\* C7: for a path that is a static path and the path of a dynamic item, the
\* payload of the merged route is the payload of the last dynamic item for
\* the path, null only when that payload is null or absent.
C7_DynamicPayloadWins ==
    pc = "loop" /\ mode # "hash" =>
      \A i \in 1..Len(workList) :
        LET p == workList[i].route
        IN  p \in Range(flat) /\ p \in Range(GivenPaths) =>
              LET v == generateRoutes[LastIndex(GivenPaths, p)].payload
              IN  workList[i].payload =
                    (IF v \in {"undefined", "null"} THEN "null" ELSE v)

\* C8: when the loop has ended, whatever the renders and the minifications
\* of the routes did, generate has resolved, with the errors list.
C8_PerRouteFailuresNotFatal ==
    LoopEnded => /\ pc = "returned"
                 /\ result = <<[errors |-> errors]>>

\* C9: when ready, build, remove, a copy or promisifyRoute fails, generate
\* rejects with that error, no route is rendered, nothing is recorded,
\* reported or returned; after a failure of ready or build, remove was not
\* called and the output directory is as it was.
C9_FatalFailures ==
    fault # "none" =>
      /\ pc = "rejected"
      /\ rejectedWith = fault
      /\ \A r \in Paths : attempts[r] = 0 /\ member[r].pc = "idle"
      /\ batches = 0
      /\ errors = <<>> /\ report = <<>> /\ result = <<>>
      /\ nojekyll = "none"
      /\ fault \in {"readyErr", "buildErr"} =>
           ~removeCalled /\ files = StaleFiles /\ dirs = {distPath}

\* promisifyRoute rejected: generate rejected with that error after the
\* output directory was reset and the assets copied
C9_Witness ==
    /\ fault = "routesErr"
    /\ pc = "rejected"
    /\ rejectedWith = "routesErr"
    /\ removeCalled
    /\ files # StaleFiles

\* C10: generate returns after the write of .nojekyll has settled: when the
\* run with static routes [/, /about], no dynamic routes, history mode, a
\* renderer that succeeds and no minification returns, the output root holds
\* index.html, about/index.html and .nojekyll, and the errors are empty.
C10_ReturnAfterMarker ==
    ( /\ pc = "returned"
      /\ mode = "history" /\ ~minifyOn
      /\ flat = <<Root, About>> /\ generateRoutes = <<>>
      /\ member[Root].res = "ok" /\ member[About].res = "ok" )
    => /\ nojekyll = "written"
       /\ Exists(files, <<"dist", "index.html">>)
       /\ Exists(files, <<"dist", "about", "index.html">>)
       /\ Exists(files, <<"dist", ".nojekyll">>)
       /\ result = <<[errors |-> <<>>]>>

\* C11: in hash mode promisifyRoute is never called, generateRoutes stays
\* empty and the work list is the single route / with payload null; in any
\* other mode the work list is the merge of the flattened static routes with
\* the resolved dynamic routes: each of their paths once, no other path.
C11_HashModeSingleRoute ==
    /\ mode = "hash" =>
         /\ pc # "resolve"
         /\ generateRoutes = <<>>
         /\ fault # "routesErr"
         /\ Computed => workList = <<[route |-> Root, payload |-> "null"]>>
         /\ \A r \in Paths \ {Root} : attempts[r] = 0
    /\ mode # "hash" /\ Computed =>
         /\ workList = decorateWithPayloads(flat, generateRoutes)
         /\ IsInjective(WorkPaths)
         /\ Range(WorkPaths) = Range(flat) \cup Range(GivenPaths)

\* a run in hash mode has returned after rendering / and nothing else
C11_Witness ==
    /\ mode = "hash"
    /\ pc = "returned"
    /\ workList = <<[route |-> Root, payload |-> "null"]>>
    /\ attempts[Root] = 1
    /\ Written(Root)

\* the file the claim names for route r: outputRoot / route / index.html
IndexHtmlOf(r) ==
    distPath \o (IF r = Root THEN <<>> ELSE r) \o <<"index.html">>

\* C12: the file written for a route is outputRoot/route/index.html (for /
\* it is <outputRoot>/index.html, for /about <outputRoot>/about/index.html),
\* and its parent directory exists when writeFile is called for it and
\* whenever the file is there.
C12_OutputPath ==
    /\ IndexHtmlOf(Root) = <<"dist", "index.html">>
    /\ IndexHtmlOf(About) = <<"dist", "about", "index.html">>
    /\ \A f \in files :
         f.data.kind \in {"raw", "min", "undefined"} =>
           /\ f.path = IndexHtmlOf(f.data.route)
           /\ SubSeq(f.path, 1, Len(f.path) - 1) \in dirs
    /\ \A r \in Paths :
         member[r].pc = "write" =>
           SubSeq(IndexHtmlOf(r), 1, Len(IndexHtmlOf(r)) - 1) \in dirs
    /\ \A r \in Paths :
         member[r].pc = "done" /\ member[r].res # "throw" =>
           \E f \in files : f.path = IndexHtmlOf(r) /\ f.data.route = r

\* / and /about are written, to dist/index.html and dist/about/index.html,
\* and dist/about exists
C12_Witness ==
    /\ [path |-> <<"dist", "index.html">>,
        data |-> [kind |-> "raw", route |-> Root]] \in files
    /\ [path |-> <<"dist", "about", "index.html">>,
        data |-> [kind |-> "raw", route |-> About]] \in files
    /\ <<"dist", "about">> \in dirs

\* C13: the error recorded when minify throws for a route is the wrapping
\* error, its record is of type unhandled, its message names the route and
\* holds the un-minified markup.
C13_MinifyErrorNamesRoute ==
    \A i \in 1..Len(errors) :
      errors[i].error = "minifyErr" =>
        /\ errors[i].type = "unhandled"
        /\ member[errors[i].route].min = "throw"
        /\ "raw" \in errors[i].message.markup
        /\ errors[i].route \in errors[i].message.routes

\* C14: batches are taken from the work list in list order, and no member
\* of a batch starts before every member of the batches before it has
\* completed: every route before the current batch has returned from its
\* callback with its file written or its failure recorded, every route
\* after it has not started.
C14_NoCrossBatchConcurrency ==
    Computed =>
      LET n == Len(workList)
          spliced == n - Len(routes)
          start == spliced - Len(batch)
      IN  /\ start >= 0
          /\ batch = SubSeq(workList, start + 1, spliced)
          /\ routes = SubSeq(workList, spliced + 1, n)
          /\ Len(batch) <= batchSize
          /\ \A i \in 1..n :
               /\ i <= start =>
                    /\ member[WorkPaths[i]].pc = "done"
                    /\ Written(WorkPaths[i])
                         \/ Records(WorkPaths[i], "unhandled") = 1
               /\ i > spliced =>
                    /\ member[WorkPaths[i]].pc = "idle"
                    /\ attempts[WorkPaths[i]] = 0

\* the second batch renders /x after / and /about of the first have returned
C14_Witness ==
    /\ batchSize = 2
    /\ batches = 2
    /\ pc = "batch"
    /\ member[X].pc = "render"
    /\ member[Root].pc = "done" /\ member[About].pc = "done"
    /\ Written(Root)
    /\ Records(About, "unhandled") = 1

\* C15: when mkdirp or writeFile rejects for a route, no record is pushed
\* for it, generate is rejected with the error, the routes not yet spliced
\* off are never started, .nojekyll is not written and nothing is reported
\* or returned.
C15_WriteFailureFatal ==
    \A r \in Paths :
      member[r].pc = "failed" =>
        /\ pc = "rejected"
        /\ rejectedWith = "fsErr"
        /\ InBatch(r)
        /\ Records(r, "handled") = (IF member[r].res = "inband" THEN 1 ELSE 0)
        /\ Records(r, "unhandled") = (IF member[r].min = "throw" THEN 1 ELSE 0)
        /\ \A i \in 1..Len(errors) : errors[i].error # "fsErr"
        /\ ~Written(r)
        /\ \A i \in 1..Len(routes) :
             /\ member[routes[i].route].pc = "idle"
             /\ attempts[routes[i].route] = 0
        /\ nojekyll = "none"
        /\ ~Exists(files, nojekyllPath)
        /\ report = <<>>
        /\ result = <<>>

\* the write step of / failed in the first batch: generate is rejected and
\* the route of the second batch is left unrendered
C15_Witness ==
    /\ member[Root].pc = "failed"
    /\ member[Root].res = "ok"
    /\ pc = "rejected"
    /\ rejectedWith = "fsErr"
    /\ routes # <<>>
    /\ errors = <<>>

-----------------------------------------------------------------------------
(* C16 *)

\* the callback of r has issued its renderRoute call (line 94)
Issued(r) == InBatch(r) /\ member[r].pc \notin {"idle", "wait"}

\* C16: within each batch the member at index i, counted from 0 anew in
\* every batch, issues its renderRoute call no earlier than i * interval ms
\* after the batch started; index 0 is not delayed; for interval > 0 the
\* render calls of a batch are issued in list order. Nothing is said about
\* the order of completion.
C16_StaggeredRenderCalls ==
    \A r \in Paths :
      InBatch(r) =>
        /\ member[r].idx = IndexIn(batch, r) - 1
        /\ Issued(r) => elapsed >= member[r].idx * interval
        /\ (member[r].idx = 0 /\ member[r].pc = "wait") =>
             ENABLED WaitElapses(r)
        /\ (interval > 0 /\ Issued(r)) =>
             \A q \in Paths :
               (InBatch(q) /\ member[q].idx < member[r].idx) => Issued(q)

\* interval is 1: the second member of a batch was delayed by 1 ms and is
\* done while the first member, issued before it, still renders
C16_Witness ==
    /\ interval = 1
    /\ \E r, q \in Paths :
         /\ InBatch(r) /\ InBatch(q)
         /\ member[r].idx = 0 /\ member[r].pc = "render"
         /\ member[q].idx = 1 /\ member[q].pc = "done"
    /\ elapsed = 1

-----------------------------------------------------------------------------
(* C17 *)

\* generate() has settled
Settled == pc \in {"returned", "rejected"}

\* C17: when every external call that is pending eventually settles,
\* generate eventually settles, whatever the work list; and as long as a
\* render call has not settled its batch is stalled: generate has not
\* returned, the loop is not back at its test and no later batch is started.
C17_SettlesUnlessRenderHangs ==
    /\ <>Settled
    /\ [](\A r \in Paths :
            member[r].pc = "render" =>
              /\ InBatch(r)
              /\ pc \in {"batch", "rejected"}
              /\ result = <<>>)
    /\ [][\A r \in Paths :
            (member[r].pc = "render" /\ member'[r].pc = "render") =>
              /\ batches' = batches
              /\ batch' = batch
              /\ routes' = routes]_vars

\* generate returned after two batches, the second of them started with a
\* route left over from a full first batch
C17_Witness ==
    /\ pc = "returned"
    /\ batches = 2
    /\ Len(workList) = 3
    /\ batchSize = 2
    /\ \A r \in Paths : member[r].pc \in {"idle", "done"}

-----------------------------------------------------------------------------
(* C18 *)

\* s is t or a beginning of t
IsPrefix(s, t) == Len(s) <= Len(t) /\ SubSeq(t, 1, Len(s)) = s

-----------------------------------------------------------------------------
(* C19 *)

\* the routes whose callback was started and has not returned or thrown: it
\* waits for its timer, for renderRoute, for mkdirp or for writeFile
InFlight == {r \in Paths : member[r].pc \in {"wait", "render", "mkdirp", "write"}}

\* C19: at every moment the routes whose processing has started and is not
\* completed are routes of the current batch, and there are at most
\* batchSize of them (500 in the code), whatever the length of the work
\* list and the order in which the calls settle.
C19_InFlightBounded ==
    /\ Cardinality(InFlight) <= batchSize
    /\ \A r \in InFlight : InBatch(r)
    /\ Len(batch) <= batchSize

\* three routes and batches of two: both routes of the first batch are in
\* flight, one in its write and one in its render call, the third waits in
\* the list
C19_Witness ==
    /\ batchSize = 2
    /\ Len(workList) = 3
    /\ Len(routes) = 1
    /\ Cardinality(InFlight) = 2
    /\ \E r, q \in InFlight : member[r].pc = "write" /\ member[q].pc = "render"

-----------------------------------------------------------------------------
(* C20 *)

\* C20: once generate() is rejected because mkdirp or writeFile failed for
\* a member of a batch, the run does nothing more to shared state: no
\* render call is issued, no file or directory of the output tree is
\* written and no failure record is appended after the rejection.
C20_QuietAfterWriteRejection ==
    [][(pc = "rejected" /\ rejectedWith = "fsErr") =>
         /\ attempts' = attempts
         /\ files' = files
         /\ dirs' = dirs
         /\ errors' = errors]_vars

====
